---- MODULE Spec2Model ----
(***************************************************************************)
(* pysaunum: SaunumClient (src/src/pysaunum/client.py) as a state machine. *)
(* One client session talks to one Modbus transport (pymodbus'            *)
(* AsyncModbusTcpClient, an external collaborator).  Calls on the session  *)
(* are serialized; async_get_data suspends at each of its three block      *)
(* reads, so it is modelled as three steps, every other operation has a    *)
(* single await and is one step.                                           *)
(***************************************************************************)
EXTENDS Integers, Sequences, FiniteSets, TLC

(* ---------------------------------------------------------------------- *)
(* Bounds of the model                                                    *)
(* ---------------------------------------------------------------------- *)
\* a block response carries at most MaxExtra words more than was asked for
MaxExtra == 1
\* consecutive async_close calls that are counted
MaxRun == 3
\* changes of the device's registers during one async_get_data
MaxChanges == 1

(* ---------------------------------------------------------------------- *)
(* const.py                                                               *)
(* ---------------------------------------------------------------------- *)
REG_SESSION_ACTIVE == 0
REG_SAUNA_TYPE == 1
REG_SAUNA_DURATION == 2
REG_FAN_DURATION == 3
REG_TARGET_TEMPERATURE == 4
REG_FAN_SPEED == 5
REG_LIGHT_CONTROL == 6
REG_CURRENT_TEMP == 100
REG_ALARM_DOOR_OPEN == 200

MIN_TEMPERATURE == 40
MAX_TEMPERATURE == 100
MIN_DURATION == 0
MAX_DURATION == 720
MIN_FAN_DURATION == 0
MAX_FAN_DURATION == 30

STATUS_OFF == 0
STATUS_ON == 1

\* values of the IntEnum FanSpeed (OFF, LOW, MEDIUM, HIGH)
FanSpeed == {0, 1, 2, 3}
\* values of the IntEnum SaunaType (TYPE_1, TYPE_2, TYPE_3)
SaunaType == {0, 1, 2}

\* word counts of the three blocks read by async_get_data
CONTROL_COUNT == 7
STATUS_COUNT == 5
ALARM_COUNT == 6

UINT16_MAX == 65536
INT16_SIGN_BIT == 32768

(* ---------------------------------------------------------------------- *)
(* Python exceptions                                                      *)
(* ---------------------------------------------------------------------- *)
\* the classes an exception is an instance of (TimeoutError is an OSError)
Bases(exc) ==
    CASE exc = "TimeoutError" -> {"TimeoutError", "OSError"}
      [] exc = "OSError" -> {"OSError"}
      [] exc = "ModbusException" -> {"ModbusException"}
      [] OTHER -> {exc}

IsInstance(exc, classes) == Bases(exc) \cap classes # {}

(* ---------------------------------------------------------------------- *)
(* The transport: what its calls can answer                               *)
(* ---------------------------------------------------------------------- *)
\* register words the device is taken to report in place of the typical ones
ControlWords == {0, 3, 4, 101, 65535}
StatusWords == {1, 32768, 65535}
AlarmWords == {1}

\* typical block contents (tests/conftest.py)
ControlBase == <<1, 0, 60, 10, 80, 2, 1>>
StatusBase == <<75, 0, 0, 1, 0>>
AlarmBase == <<0, 0, 0, 0, 0, 0>>

Subst(s, i, w) == [k \in 1..Len(s) |-> IF k = i THEN w ELSE s[k]]
Resize(s, n) == [k \in 1..n |-> IF k <= Len(s) THEN s[k] ELSE 0]

\* word lists a response to a block read can carry
RegLists(base, words) ==
    {Subst(base, i, w) : i \in 1..Len(base), w \in words}
        \cup {Resize(base, n) : n \in 0..(Len(base) + MaxExtra)}

\* a response object: isError() and the registers attribute, <<>> when the
\* attribute is missing (None) and <<list>> otherwise; an error response
\* carries no list, an empty one or a full one
Responses(base, words) ==
    [kind : {"response"}, isError : {FALSE},
     registers : {<<>>} \cup {<<l>> : l \in RegLists(base, words)}]
        \cup [kind : {"response"}, isError : {TRUE},
              registers : {<<>>, << <<>> >>, <<base>>}]

Raises(exc) == [kind |-> "raise", exc |-> exc]

\* outcomes of read_holding_registers; without a link only exceptions
ReadOutcomes(base, words, link) ==
    {Raises("TimeoutError"), Raises("ModbusException")}
        \cup (IF link THEN Responses(base, words) ELSE {})

\* outcomes of write_register
WriteOutcomes(link) ==
    {Raises("TimeoutError"), Raises("ModbusException")}
        \cup (IF link THEN [kind : {"response"}, isError : BOOLEAN] ELSE {})

\* outcomes of the transport's connect(): it returns with the link up or
\* down, or raises
ConnectOutcomes ==
    {[kind |-> "return", connected |-> c] : c \in BOOLEAN}
        \cup {Raises("TimeoutError"), Raises("OSError"), Raises("ModbusException")}

(* ---------------------------------------------------------------------- *)
(* client.py: pure helpers                                                *)
(* ---------------------------------------------------------------------- *)
bool(x) == x # 0

RECURSIVE BitOr(_, _)
\* bitwise OR of two naturals
BitOr(a, b) ==
    IF a = 0 THEN b
    ELSE IF b = 0 THEN a
    ELSE (IF (a % 2) + (b % 2) > 0 THEN 1 ELSE 0) + 2 * BitOr(a \div 2, b \div 2)

\* Python integers are unbounded: one that may exceed 31 bits is kept as its
\* base-65536 digits, lowest first, without a leading zero digit
RECURSIVE Big(_)
Big(n) == IF n = 0 THEN <<>> ELSE <<n % 65536>> \o Big(n \div 65536)

\* value << 16
ShiftLeft16(digits) == IF digits = <<>> THEN <<>> ELSE <<0>> \o digits

\* a | b
Or(a, b) ==
    [k \in 1..(IF Len(a) > Len(b) THEN Len(a) ELSE Len(b)) |->
        BitOr(IF k <= Len(a) THEN a[k] ELSE 0, IF k <= Len(b) THEN b[k] ELSE 0)]

\* a decoding that takes the word as unsigned
decode_int16_Unsigned(value) == value

\* _decode_int16
decode_int16(value) ==
    IF value >= INT16_SIGN_BIT THEN value - UINT16_MAX ELSE value

\* _validate_registers without the isError() check
validate_registers_NoErrorCheck(result, expected_count) ==
    IF result.registers = <<>> \/ Len(result.registers[1]) < expected_count
    THEN [exc |-> "SaunumInvalidDataError", registers |-> <<>>]
    ELSE [exc |-> "none", registers |-> result.registers[1]]

\* _validate_registers that takes len() of a missing registers attribute
validate_registers_NoNoneCheck(result, expected_count) ==
    IF result.isError
    THEN [exc |-> "SaunumCommunicationError", registers |-> <<>>]
    ELSE IF result.registers = <<>>
         THEN [exc |-> "TypeError", registers |-> <<>>]
         ELSE IF Len(result.registers[1]) < expected_count
              THEN [exc |-> "SaunumInvalidDataError", registers |-> <<>>]
              ELSE [exc |-> "none", registers |-> result.registers[1]]

\* _validate_registers that checks the length before isError()
validate_registers_LengthFirst(result, expected_count) ==
    IF result.registers = <<>> \/ Len(result.registers[1]) < expected_count
    THEN [exc |-> "SaunumInvalidDataError", registers |-> <<>>]
    ELSE IF result.isError
         THEN [exc |-> "SaunumCommunicationError", registers |-> <<>>]
         ELSE [exc |-> "none", registers |-> result.registers[1]]

\* _validate_registers: the exception it raises ("none" when it returns) and
\* the list it returns
validate_registers(result, expected_count) ==
    IF result.isError
    THEN [exc |-> "SaunumCommunicationError", registers |-> <<>>]
    ELSE IF result.registers = <<>> \/ Len(result.registers[1]) < expected_count
         THEN [exc |-> "SaunumInvalidDataError", registers |-> <<>>]
         ELSE [exc |-> "none", registers |-> result.registers[1]]

\* Enum(value): the member, or ValueError for a value that is no member
EnumCall(members, value) ==
    IF value \in members THEN [exc |-> "none", value |-> value]
    ELSE [exc |-> "ValueError", value |-> value]

\* sauna_type of async_get_data: SaunaType member when known, else the raw int
decode_sauna_type(sauna_type_raw) ==
    IF sauna_type_raw \in SaunaType
    THEN [exc |-> EnumCall(SaunaType, sauna_type_raw).exc,
          known |-> TRUE, value |-> sauna_type_raw]
    ELSE [exc |-> "none", known |-> FALSE, value |-> sauna_type_raw]

\* fan_speed converted without the membership test
decode_fan_speed_Unguarded(fan_speed_raw) ==
    [exc |-> EnumCall(FanSpeed, fan_speed_raw).exc, value |-> <<fan_speed_raw>>]

\* fan_speed of async_get_data: <<member>>, or <<>> (None) when unrecognized
decode_fan_speed(fan_speed_raw) ==
    IF fan_speed_raw \in FanSpeed
    THEN [exc |-> EnumCall(FanSpeed, fan_speed_raw).exc, value |-> <<fan_speed_raw>>]
    ELSE [exc |-> "none", value |-> <<>>]

\* on_time composed with the low word first
decode_on_time_LowFirst(high, low) == Or(ShiftLeft16(Big(low)), Big(high))

\* on_time composed without the shift of the high word
decode_on_time_NoShift(high, low) == Or(Big(high), Big(low))

\* on_time of async_get_data
decode_on_time(high, low) == Or(ShiftLeft16(Big(high)), Big(low))

\* a snapshot whose alarm flags are not those of the alarm block just read
SaunumData_StaleAlarms(control_regs, status_regs, alarm_regs) ==
    [session_active |-> bool(control_regs[1]),
     sauna_type |-> [known |-> decode_sauna_type(control_regs[2]).known,
                     value |-> decode_sauna_type(control_regs[2]).value],
     sauna_duration |-> control_regs[3],
     fan_duration |-> control_regs[4],
     target_temperature |-> control_regs[5],
     fan_speed |-> decode_fan_speed(control_regs[6]).value,
     light_on |-> bool(control_regs[7]),
     current_temperature |-> decode_int16(status_regs[1]),
     on_time |-> decode_on_time(status_regs[2], status_regs[3]),
     heater_elements_active |-> status_regs[4],
     door_open |-> bool(status_regs[5]),
     alarm_door_open |-> FALSE,
     alarm_door_sensor |-> FALSE,
     alarm_thermal_cutoff |-> FALSE,
     alarm_internal_temp |-> FALSE,
     alarm_temp_sensor_short |-> FALSE,
     alarm_temp_sensor_open |-> FALSE]

\* the SaunumData built by async_get_data from the three validated lists
SaunumData(control_regs, status_regs, alarm_regs) ==
    [session_active |-> bool(control_regs[1]),
     sauna_type |-> [known |-> decode_sauna_type(control_regs[2]).known,
                     value |-> decode_sauna_type(control_regs[2]).value],
     sauna_duration |-> control_regs[3],
     fan_duration |-> control_regs[4],
     target_temperature |-> control_regs[5],
     fan_speed |-> decode_fan_speed(control_regs[6]).value,
     light_on |-> bool(control_regs[7]),
     current_temperature |-> decode_int16(status_regs[1]),
     on_time |-> decode_on_time(status_regs[2], status_regs[3]),
     heater_elements_active |-> status_regs[4],
     door_open |-> bool(status_regs[5]),
     alarm_door_open |-> bool(alarm_regs[1]),
     alarm_door_sensor |-> bool(alarm_regs[2]),
     alarm_thermal_cutoff |-> bool(alarm_regs[3]),
     alarm_internal_temp |-> bool(alarm_regs[4]),
     alarm_temp_sensor_short |-> bool(alarm_regs[5]),
     alarm_temp_sensor_open |-> bool(alarm_regs[6])]

\* the parsing part of async_get_data: the exception raised while the fields
\* are decoded ("none" when the snapshot is built)
parse_exc(control_regs, status_regs, alarm_regs) ==
    IF decode_sauna_type(control_regs[2]).exc # "none"
    THEN decode_sauna_type(control_regs[2]).exc
    ELSE decode_fan_speed(control_regs[6]).exc

\* except clauses that let the transport's exception through
get_data_except_Passthrough(exc) == exc

\* the except clauses of async_get_data: what the caller sees for an
\* exception raised inside the try block
get_data_except(exc) ==
    IF IsInstance(exc, {"TimeoutError"}) THEN "SaunumTimeoutError"
    ELSE IF IsInstance(exc, {"ModbusException"}) THEN "SaunumCommunicationError"
    ELSE IF IsInstance(exc, {"IndexError", "KeyError", "ValueError"})
         THEN "SaunumInvalidDataError"
    ELSE exc

\* async_get_data without its connection check
get_data_check_Skip(isConnected) == "none"

\* the connection check of async_get_data: what it raises ("none": go on)
get_data_check(isConnected) ==
    IF ~isConnected THEN "SaunumConnectionError" ELSE "none"

\* a block read that hands on a list of zeros in place of the words read
read_block_Fixed(outcome, expected_count) ==
    IF outcome.kind = "raise"
    THEN [exc |-> get_data_except(outcome.exc), registers |-> <<>>]
    ELSE [exc |-> get_data_except(validate_registers(outcome, expected_count).exc),
          registers |-> IF validate_registers(outcome, expected_count).exc = "none"
                        THEN [k \in 1..expected_count |-> 0]
                        ELSE <<>>]

\* one block read of async_get_data: the transport's answer, validated.
\* exc is what async_get_data raises ("none": the read went through)
read_block(outcome, expected_count) ==
    IF outcome.kind = "raise"
    THEN [exc |-> get_data_except(outcome.exc), registers |-> <<>>]
    ELSE [exc |-> get_data_except(validate_registers(outcome, expected_count).exc),
          registers |-> validate_registers(outcome, expected_count).registers]

\* except clauses of connect() in the other order: TimeoutError is an OSError
connect_except_OSErrorFirst(exc) ==
    IF IsInstance(exc, {"OSError", "ModbusException"}) THEN "SaunumConnectionError"
    ELSE IF IsInstance(exc, {"TimeoutError"}) THEN "SaunumTimeoutError"
    ELSE exc

\* the except clauses of connect()
connect_except(exc) ==
    IF IsInstance(exc, {"TimeoutError"}) THEN "SaunumTimeoutError"
    ELSE IF IsInstance(exc, {"OSError", "ModbusException"}) THEN "SaunumConnectionError"
    ELSE exc

\* connect() that tries a second time when the transport raises
connect_calls_Retry(outcome) ==
    IF outcome.kind = "raise" THEN << <<"connect">>, <<"connect">> >>
    ELSE << <<"connect">> >>

\* connect(): the transport calls it makes, one connect() whatever the outcome
connect_calls(outcome) == << <<"connect">> >>

\* connect() that does not look at self._client.connected
connect_result_NoCheck(outcome) ==
    IF outcome.kind = "raise" THEN connect_except(outcome.exc)
    ELSE "none"

\* connect(): what the call raises ("none": it returns) for an outcome of
\* the transport's connect
connect_result(outcome) ==
    IF outcome.kind = "raise" THEN connect_except(outcome.exc)
    ELSE IF ~outcome.connected THEN connect_except("SaunumConnectionError")
    ELSE "none"

\* the except clauses of _async_write_register
write_except(exc) ==
    IF IsInstance(exc, {"TimeoutError"}) THEN "SaunumTimeoutError"
    ELSE IF IsInstance(exc, {"ModbusException"}) THEN "SaunumCommunicationError"
    ELSE exc

\* _async_write_register that does not look at the response's isError()
write_result_IgnoreError(outcome) ==
    IF outcome.kind = "raise" THEN write_except(outcome.exc)
    ELSE "none"

\* _async_write_register, after the connection check: what it raises for an
\* outcome of the transport's write_register
write_result(outcome) ==
    IF outcome.kind = "raise" THEN write_except(outcome.exc)
    ELSE IF outcome.isError THEN write_except("SaunumCommunicationError")
    ELSE "none"

\* _async_write_register without its connection check
async_write_register_NoCheck(isConnected, address, value, outcome) ==
    [exc |-> write_result(outcome),
     calls |-> << <<"write_register", address, value>> >>]

\* _async_write_register: what it raises ("none": it returns) and the
\* transport calls it makes
async_write_register(isConnected, address, value, outcome) ==
    IF ~isConnected
    THEN [exc |-> "SaunumConnectionError", calls |-> <<>>]
    ELSE [exc |-> write_result(outcome),
          calls |-> << <<"write_register", address, value>> >>]

\* a setter that validates its argument after the connection check
setter_ConnectionFirst(invalid, isConnected, address, value, outcome) ==
    IF ~isConnected
    THEN [exc |-> "SaunumConnectionError", calls |-> <<>>]
    ELSE IF invalid
         THEN [exc |-> "ValueError", calls |-> <<>>]
         ELSE async_write_register(isConnected, address, value, outcome)

\* a setter: validate the argument, then _async_write_register
setter(invalid, isConnected, address, value, outcome) ==
    IF invalid
    THEN [exc |-> "ValueError", calls |-> <<>>]
    ELSE async_write_register(isConnected, address, value, outcome)

\* create() that hands out the client whatever connect() did
create_result_Unchecked(exc) == "none"

\* create(): what it raises ("none": it returns the client) when its
\* connect() raised exc; connect() is awaited outside any try block
create_result(exc) == exc

\* error handling that drops the connection when a request fails
link_after_failure_Close(isConnected, exc) ==
    IF exc \in {"SaunumTimeoutError", "SaunumCommunicationError",
                "SaunumInvalidDataError"}
    THEN FALSE
    ELSE isConnected

\* the link after a read or write that raised exc ("none": it returned): the
\* except clauses of async_get_data and _async_write_register only re-raise,
\* they neither close nor reconnect
link_after_failure(isConnected, exc) == isConnected

\* async_close that closes whatever the connection state
close_needed_Always(isConnected) == TRUE

\* async_close: is the transport's close() called
close_needed(isConnected) == isConnected

(* ---------------------------------------------------------------------- *)
(* client.py: argument validation of the setters (TRUE: ValueError)       *)
(* ---------------------------------------------------------------------- *)
\* a range check that forgets 0, the type default
temperature_invalid_NoDefault(temperature) ==
    ~(MIN_TEMPERATURE <= temperature /\ temperature <= MAX_TEMPERATURE)

temperature_invalid(temperature) ==
    temperature < 0
        \/ (temperature # 0
            /\ ~(MIN_TEMPERATURE <= temperature /\ temperature <= MAX_TEMPERATURE))

\* a range check that excludes the upper bound
sauna_duration_invalid_Exclusive(minutes) ==
    ~(MIN_DURATION <= minutes /\ minutes < MAX_DURATION)

sauna_duration_invalid(minutes) ==
    ~(MIN_DURATION <= minutes /\ minutes <= MAX_DURATION)

fan_duration_invalid(minutes) ==
    ~(MIN_FAN_DURATION <= minutes /\ minutes <= MAX_FAN_DURATION)

\* a check of the upper end only
fan_speed_invalid_UpperOnly(speed) == speed > 3

fan_speed_invalid(speed) == speed \notin FanSpeed

\* a check that rejects negative codes only
sauna_type_invalid_NegativeOnly(sauna_type) == sauna_type < 0

sauna_type_invalid(sauna_type) == sauna_type \notin SaunaType

\* value written by async_set_light_control
\* enabled written the other way round
light_value_Inverted(enabled) == IF enabled THEN STATUS_OFF ELSE STATUS_ON

light_value(enabled) == IF enabled THEN STATUS_ON ELSE STATUS_OFF

(* ---------------------------------------------------------------------- *)
(* Arguments the setters are called with                                  *)
(* ---------------------------------------------------------------------- *)
TemperatureArgs == {-1, 0, 1, 30, 39, 40, 41, 80, 99, 100, 101, 150}
SaunaDurationArgs == {-1, 0, 1, 60, 720, 721}
FanDurationArgs == {-1, 0, 1, 30, 31}
FanSpeedArgs == {-1, 0, 1, 2, 3, 4}
SaunaTypeArgs == {-1, 0, 1, 2, 3}

(* ---------------------------------------------------------------------- *)
(* State                                                                  *)
(* ---------------------------------------------------------------------- *)
VARIABLES
    connected,          \* self._client.connected, the transport's link flag
    pc,                 \* "idle", or the block async_get_data reads next
    op,                 \* the operation called last
    arg,                \* its argument: <<>> or <<value>>
    result,             \* "ok", the exception it raised, "pending" while it runs
    calls,              \* the transport calls made by that operation, in order
    replies,            \* what the transport answered to them, in order
    control_regs,       \* validated control block of the running async_get_data
    status_regs,        \* validated status block
    alarm_regs,         \* validated alarm block
    data,               \* <<>> or <<the SaunumData returned>>
    isConnectedAtCall,  \* is_connected when the operation was called
    isConnectedAtReturn,\* is_connected when it returned or raised
    closeRun,           \* number of async_close calls in succession
    closeCount,         \* transport close() calls made by them
    handleOpen,         \* a link was established and close() not called since
    ctx,                \* "in" inside an `async with client` block, else "out"
    epoch,              \* changes of the device's registers since the call began
    readAt              \* the epoch at each block read of the async_get_data

vars == <<connected, pc, op, arg, result, calls, replies, control_regs, status_regs,
          alarm_regs, data, isConnectedAtCall, isConnectedAtReturn,
          closeRun, closeCount, handleOpen, ctx, epoch, readAt>>

Min(a, b) == IF a < b THEN a ELSE b

Outcome(exc) == IF exc = "none" THEN "ok" ELSE exc

\* SaunumClient.__init__: a client that is not connected
Init ==
    /\ connected = FALSE
    /\ pc = "idle"
    /\ op = "init"
    /\ arg = <<>>
    /\ result = "ok"
    /\ calls = <<>>
    /\ replies = <<>>
    /\ control_regs = <<>>
    /\ status_regs = <<>>
    /\ alarm_regs = <<>>
    /\ data = <<>>
    /\ isConnectedAtCall = FALSE
    /\ isConnectedAtReturn = FALSE
    /\ closeRun = 0
    /\ closeCount = 0
    /\ handleOpen = FALSE
    /\ ctx = "out"
    /\ epoch = 0
    /\ readAt = <<>>

\* the caller holds a client: a create() that raised returned none
HasClient == ~(op = "create" /\ result # "ok")

\* an operation other than async_close that is called and finishes in one step
Complete(name, a, exc, newCalls, newReplies, newConnected) ==
    /\ pc = "idle"
    /\ HasClient
    /\ pc' = "idle"
    /\ op' = name
    /\ arg' = a
    /\ result' = Outcome(exc)
    /\ calls' = newCalls
    /\ replies' = newReplies
    /\ connected' = newConnected
    /\ isConnectedAtCall' = connected
    /\ isConnectedAtReturn' = newConnected
    /\ control_regs' = <<>>
    /\ status_regs' = <<>>
    /\ alarm_regs' = <<>>
    /\ data' = <<>>
    /\ closeRun' = 0
    /\ closeCount' = 0
    /\ handleOpen' = (handleOpen \/ newConnected)
    /\ ctx' = IF name = "__aenter__" /\ exc = "none" THEN "in" ELSE ctx
    /\ epoch' = 0
    /\ readAt' = <<>>

\* the link after the transport's connect(): as returned; after an exception
\* no link is established, a link that was up stays up or is dropped
LinkAfterConnect(link, outcome) ==
    IF outcome.kind = "return" THEN {outcome.connected}
    ELSE IF link THEN BOOLEAN ELSE {FALSE}

\* connect(), called as name
Connect(name) ==
    \E outcome \in ConnectOutcomes :
        \E link \in LinkAfterConnect(connected, outcome) :
            Complete(name, <<>>, connect_result(outcome),
                     connect_calls(outcome), <<outcome>>, link)

connect ==
    /\ ctx = "out"
    /\ Connect("connect")

\* create(): the constructor, then connect() on the new client
create ==
    /\ op = "init"
    /\ \E outcome \in ConnectOutcomes :
        \E link \in LinkAfterConnect(connected, outcome) :
            Complete("create", <<>>, create_result(connect_result(outcome)),
                     connect_calls(outcome), <<outcome>>, link)

\* __aenter__: connect(); the block is entered when it returns
aenter ==
    /\ ctx = "out"
    /\ Connect("__aenter__")

Setter(name, invalid, address, a, value) ==
    \E outcome \in WriteOutcomes(connected) :
        LET r == setter(invalid, connected, address, value, outcome) IN
        Complete(name, a, r.exc, r.calls,
                 IF r.calls = <<>> THEN <<>> ELSE <<outcome>>,
                 IF r.calls = <<>> THEN connected
                 ELSE link_after_failure(connected, r.exc))

async_start_session ==
    Setter("async_start_session", FALSE, REG_SESSION_ACTIVE, <<>>, 1)

async_stop_session ==
    Setter("async_stop_session", FALSE, REG_SESSION_ACTIVE, <<>>, 0)

async_set_target_temperature ==
    \E temperature \in TemperatureArgs :
        Setter("async_set_target_temperature", temperature_invalid(temperature),
               REG_TARGET_TEMPERATURE, <<temperature>>, temperature)

async_set_sauna_duration ==
    \E minutes \in SaunaDurationArgs :
        Setter("async_set_sauna_duration", sauna_duration_invalid(minutes),
               REG_SAUNA_DURATION, <<minutes>>, minutes)

async_set_fan_duration ==
    \E minutes \in FanDurationArgs :
        Setter("async_set_fan_duration", fan_duration_invalid(minutes),
               REG_FAN_DURATION, <<minutes>>, minutes)

async_set_fan_speed ==
    \E speed \in FanSpeedArgs :
        Setter("async_set_fan_speed", fan_speed_invalid(speed),
               REG_FAN_SPEED, <<speed>>, speed)

async_set_sauna_type ==
    \E sauna_type \in SaunaTypeArgs :
        Setter("async_set_sauna_type", sauna_type_invalid(sauna_type),
               REG_SAUNA_TYPE, <<sauna_type>>, sauna_type)

async_set_light_control ==
    \E enabled \in BOOLEAN :
        Setter("async_set_light_control", FALSE, REG_LIGHT_CONTROL,
               <<IF enabled THEN 1 ELSE 0>>, light_value(enabled))

\* async_get_data is called: the connection check
async_get_data ==
    IF get_data_check(connected) # "none"
    THEN Complete("async_get_data", <<>>, get_data_check(connected),
                  <<>>, <<>>, connected)
    ELSE /\ pc = "idle"
         /\ HasClient
         /\ pc' = "control"
         /\ op' = "async_get_data"
         /\ arg' = <<>>
         /\ result' = "pending"
         /\ calls' = <<>>
         /\ replies' = <<>>
         /\ isConnectedAtCall' = connected
         /\ control_regs' = <<>>
         /\ status_regs' = <<>>
         /\ alarm_regs' = <<>>
         /\ data' = <<>>
         /\ closeRun' = 0
         /\ closeCount' = 0
         /\ epoch' = 0
         /\ readAt' = <<>>
         /\ UNCHANGED <<connected, isConnectedAtReturn, handleOpen, ctx>>

\* async_get_data raises exc
GetDataRaise(exc) ==
    /\ pc' = "idle"
    /\ result' = exc
    /\ connected' = link_after_failure(connected, exc)
    /\ isConnectedAtReturn' = connected'
    /\ data' = <<>>

\* first block read: control registers
read_control ==
    /\ pc = "control"
    /\ \E outcome \in ReadOutcomes(ControlBase, ControlWords, connected) :
        LET r == read_block(outcome, CONTROL_COUNT) IN
        /\ calls' = Append(calls, <<"read_holding_registers", REG_SESSION_ACTIVE, CONTROL_COUNT>>)
        /\ replies' = Append(replies, outcome)
        /\ readAt' = Append(readAt, epoch)
        /\ IF r.exc # "none"
           THEN GetDataRaise(r.exc) /\ UNCHANGED control_regs
           ELSE /\ pc' = "status"
                /\ control_regs' = r.registers
                /\ UNCHANGED <<connected, result, isConnectedAtReturn, data>>
    /\ UNCHANGED <<op, arg, status_regs, alarm_regs,
                   isConnectedAtCall, closeRun, closeCount, handleOpen, ctx, epoch>>

\* second block read: status registers
read_status ==
    /\ pc = "status"
    /\ \E outcome \in ReadOutcomes(StatusBase, StatusWords, connected) :
        LET r == read_block(outcome, STATUS_COUNT) IN
        /\ calls' = Append(calls, <<"read_holding_registers", REG_CURRENT_TEMP, STATUS_COUNT>>)
        /\ replies' = Append(replies, outcome)
        /\ readAt' = Append(readAt, epoch)
        /\ IF r.exc # "none"
           THEN GetDataRaise(r.exc) /\ UNCHANGED status_regs
           ELSE /\ pc' = "alarm"
                /\ status_regs' = r.registers
                /\ UNCHANGED <<connected, result, isConnectedAtReturn, data>>
    /\ UNCHANGED <<op, arg, control_regs, alarm_regs,
                   isConnectedAtCall, closeRun, closeCount, handleOpen, ctx, epoch>>

\* third block read: alarm registers, then the parsing and the return
read_alarm ==
    /\ pc = "alarm"
    /\ \E outcome \in ReadOutcomes(AlarmBase, AlarmWords, connected) :
        LET r == read_block(outcome, ALARM_COUNT) IN
        /\ calls' = Append(calls, <<"read_holding_registers", REG_ALARM_DOOR_OPEN, ALARM_COUNT>>)
        /\ replies' = Append(replies, outcome)
        /\ readAt' = Append(readAt, epoch)
        /\ IF r.exc # "none"
           THEN GetDataRaise(r.exc) /\ UNCHANGED alarm_regs
           ELSE /\ alarm_regs' = r.registers
                /\ LET e == get_data_except(parse_exc(control_regs, status_regs, r.registers)) IN
                   IF e # "none"
                   THEN GetDataRaise(e)
                   ELSE /\ pc' = "idle"
                        /\ result' = "ok"
                        /\ UNCHANGED connected
                        /\ isConnectedAtReturn' = connected
                        /\ data' = <<SaunumData(control_regs, status_regs, r.registers)>>
    /\ UNCHANGED <<op, arg, control_regs, status_regs,
                   isConnectedAtCall, closeRun, closeCount, handleOpen, ctx, epoch>>

\* async_close, called as name: the transport's close() drops the link and
\* releases the handle
Close(name) ==
    /\ pc = "idle"
    /\ HasClient
    /\ pc' = "idle"
    /\ op' = name
    /\ arg' = <<>>
    /\ result' = "ok"
    /\ isConnectedAtCall' = connected
    /\ IF close_needed(connected)
       THEN /\ calls' = << <<"close">> >>
            /\ replies' = << [kind |-> "return"] >>
            /\ connected' = FALSE
            /\ handleOpen' = FALSE
            /\ closeCount' = Min(closeCount + 1, MaxRun)
       ELSE /\ calls' = <<>>
            /\ replies' = <<>>
            /\ connected' = connected
            /\ handleOpen' = handleOpen
            /\ closeCount' = closeCount
    /\ isConnectedAtReturn' = connected'
    /\ closeRun' = Min(closeRun + 1, MaxRun)
    /\ control_regs' = <<>>
    /\ status_regs' = <<>>
    /\ alarm_regs' = <<>>
    /\ data' = <<>>
    /\ epoch' = 0
    /\ readAt' = <<>>

async_close ==
    /\ ctx = "out"
    /\ Close("async_close")
    /\ ctx' = ctx

\* __aexit__: async_close() when the block is left, normally or by an
\* exception of its body
aexit ==
    /\ ctx = "in"
    /\ Close("__aexit__")
    /\ ctx' = "out"

\* the transport loses the link (self._client.connected turns False)
LinkLost ==
    /\ connected
    /\ connected' = FALSE
    /\ UNCHANGED <<pc, op, arg, result, calls, replies, control_regs, status_regs,
                   alarm_regs, data, isConnectedAtCall, isConnectedAtReturn,
                   closeRun, closeCount, handleOpen, ctx, epoch, readAt>>

\* the device's registers change while async_get_data is between two of its
\* block reads: the device itself, another master, or a write of another task
DeviceChange ==
    /\ pc \in {"status", "alarm"}
    /\ epoch < MaxChanges
    /\ epoch' = epoch + 1
    /\ UNCHANGED <<connected, pc, op, arg, result, calls, replies, control_regs,
                   status_regs, alarm_regs, data, isConnectedAtCall,
                   isConnectedAtReturn, closeRun, closeCount, handleOpen, ctx, readAt>>

Next ==
    \/ create
    \/ connect
    \/ async_get_data
    \/ read_control
    \/ read_status
    \/ read_alarm
    \/ async_start_session
    \/ async_stop_session
    \/ async_set_target_temperature
    \/ async_set_sauna_duration
    \/ async_set_fan_duration
    \/ async_set_fan_speed
    \/ async_set_sauna_type
    \/ async_set_light_control
    \/ async_close
    \/ aenter
    \/ aexit
    \/ LinkLost

Spec == Init /\ [][Next]_vars

\* reading a device whose registers change between the block reads: the
\* session is connected, read, written to (every write operation goes through
\* _async_write_register the way async_start_session does) and closed
NextDevice ==
    \/ connect
    \/ async_get_data
    \/ read_control
    \/ read_status
    \/ read_alarm
    \/ async_start_session
    \/ async_close
    \/ LinkLost
    \/ DeviceChange

SpecDevice == Init /\ [][NextDevice]_vars

\* every transport call answers, fails or times out: a block read that
\* async_get_data awaits is eventually answered
FairSpec ==
    /\ Spec
    /\ WF_vars(read_control)
    /\ WF_vars(read_status)
    /\ WF_vars(read_alarm)

(* ---------------------------------------------------------------------- *)
(* The decoding of the status block on its own                            *)
(* ---------------------------------------------------------------------- *)
\* words the device reports as temperature and as the two on-time words
CodecWords == {0, 1, 32767, 32768, 65535}

\* a full, non-error response with these words
Response(words) == [kind |-> "response", isError |-> FALSE, registers |-> <<words>>]

\* async_get_data after its three reads: the blocks are validated, the
\* status block holds any temperature word and any two on-time words
InitCodec ==
    /\ connected = TRUE
    /\ pc = "parse"
    /\ op = "async_get_data"
    /\ arg = <<>>
    /\ result = "pending"
    /\ calls = << <<"read_holding_registers", REG_SESSION_ACTIVE, CONTROL_COUNT>>,
                  <<"read_holding_registers", REG_CURRENT_TEMP, STATUS_COUNT>>,
                  <<"read_holding_registers", REG_ALARM_DOOR_OPEN, ALARM_COUNT>> >>
    /\ control_regs = ControlBase
    /\ status_regs \in {<<w, high, low, 1, 0>> : w \in CodecWords,
                                                 high \in CodecWords, low \in CodecWords}
    /\ alarm_regs = AlarmBase
    /\ replies = <<Response(control_regs), Response(status_regs), Response(alarm_regs)>>
    /\ data = <<>>
    /\ isConnectedAtCall = TRUE
    /\ isConnectedAtReturn = FALSE
    /\ closeRun = 0
    /\ closeCount = 0
    /\ handleOpen = TRUE
    /\ ctx = "out"
    /\ epoch = 0
    /\ readAt = <<0, 0, 0>>

\* the parsing part of async_get_data and its return
parse ==
    /\ pc = "parse"
    /\ LET e == get_data_except(parse_exc(control_regs, status_regs, alarm_regs)) IN
       IF e # "none"
       THEN GetDataRaise(e)
       ELSE /\ pc' = "idle"
            /\ result' = "ok"
            /\ UNCHANGED connected
            /\ isConnectedAtReturn' = connected
            /\ data' = <<SaunumData(control_regs, status_regs, alarm_regs)>>
    /\ UNCHANGED <<op, arg, calls, replies, control_regs, status_regs, alarm_regs,
                   isConnectedAtCall, closeRun, closeCount, handleOpen, ctx,
                   epoch, readAt>>

NextCodec == parse

SpecCodec == InitCodec /\ [][NextCodec]_vars

(* ---------------------------------------------------------------------- *)
(* Properties                                                             *)
(* ---------------------------------------------------------------------- *)
WriteOps ==
    {"async_start_session", "async_stop_session", "async_set_target_temperature",
     "async_set_sauna_duration", "async_set_fan_duration", "async_set_fan_speed",
     "async_set_sauna_type", "async_set_light_control"}

\* the documented domain of each setter's argument
Accepted(name, a) ==
    CASE name = "async_set_target_temperature" -> a[1] = 0 \/ a[1] \in 40..100
      [] name = "async_set_sauna_duration" -> a[1] \in 0..720
      [] name = "async_set_fan_duration" -> a[1] \in 0..30
      [] name = "async_set_fan_speed" -> a[1] \in {0, 1, 2, 3}
      [] name = "async_set_sauna_type" -> a[1] \in {0, 1, 2}
      [] OTHER -> TRUE

Errors ==
    {"SaunumConnectionError", "SaunumTimeoutError", "SaunumCommunicationError",
     "SaunumInvalidDataError"}

\* C1: a write operation called with a valid argument while the session is
\* Disconnected raises SaunumConnectionError and makes no transport call, so
\* write_register is not invoked.
C1_WriteWhileDisconnected ==
    (pc = "idle" /\ op \in WriteOps /\ ~isConnectedAtCall /\ Accepted(op, arg))
        => (result = "SaunumConnectionError" /\ calls = <<>>)

C1_Witness ==
    /\ op = "async_set_target_temperature" /\ arg = <<80>>
    /\ ~isConnectedAtCall
    /\ result = "SaunumConnectionError"

\* C2: async_get_data called while Disconnected fails at once with
\* SaunumConnectionError: it never waits for a block read, issues no read and
\* returns no snapshot.
C2_GetDataWhileDisconnected ==
    (op = "async_get_data" /\ ~isConnectedAtCall)
        => (pc = "idle" /\ result = "SaunumConnectionError"
            /\ calls = <<>> /\ data = <<>>)

C2_Witness ==
    op = "async_get_data" /\ ~isConnectedAtCall /\ result = "SaunumConnectionError"

\* C3: a setter called with a value outside its domain raises ValueError, also
\* when the session is Disconnected; it makes no transport call and leaves the
\* connection state as it was.
C3_ValidationFirst ==
    (pc = "idle" /\ op \in WriteOps /\ ~Accepted(op, arg))
        => (result = "ValueError" /\ calls = <<>>
            /\ isConnectedAtReturn = isConnectedAtCall)

C3_Witness ==
    /\ op = "async_set_fan_speed" /\ arg = <<4>>
    /\ ~isConnectedAtCall
    /\ result = "ValueError"

\* C4: starting from Disconnected, connect() either returns with the session
\* Connected or raises one of its errors with the session still Disconnected;
\* a transport connect that returns without a link makes it raise
\* SaunumConnectionError.
C4_ConnectAtomic ==
    (op = "connect" /\ ~isConnectedAtCall)
        => /\ \/ result = "ok" /\ isConnectedAtReturn
              \/ result \in Errors /\ ~isConnectedAtReturn
           /\ (replies[1].kind = "return" /\ ~replies[1].connected)
                => result = "SaunumConnectionError"

C4_Witness ==
    /\ op = "connect" /\ ~isConnectedAtCall
    /\ replies = << [kind |-> "return", connected |-> FALSE] >>
    /\ result = "SaunumConnectionError" /\ ~isConnectedAtReturn

\* C5: async_close never raises; calls in succession invoke the transport's
\* close() at most once; closing a Disconnected session makes no transport
\* call and leaves it Disconnected.
C5_CloseIdempotent ==
    (op = "async_close")
        => /\ result = "ok"
           /\ closeCount <= 1
           /\ ~isConnectedAtCall => (calls = <<>> /\ ~isConnectedAtReturn)

C5_Witness ==
    op = "async_close" /\ closeRun >= 2 /\ closeCount = 1 /\ calls = <<>>

\* the three block reads of one async_get_data, as the interface table gives them
ExpectedReads ==
    << <<"read_holding_registers", 0, 7>>,
       <<"read_holding_registers", 100, 5>>,
       <<"read_holding_registers", 200, 6>> >>

\* the answer to a block read is a failure: an exception, an error response,
\* or fewer words than were asked for
Failed(reply, count) ==
    \/ reply.kind = "raise"
    \/ reply.isError
    \/ reply.registers = <<>>
    \/ Len(reply.registers[1]) < count

\* a non-error response with no word list or fewer words than were asked for
Short(reply, count) ==
    /\ reply.kind = "response"
    /\ ~reply.isError
    /\ (reply.registers = <<>> \/ Len(reply.registers[1]) < count)

C8_SnapshotAlways ==
    (op = "async_get_data" /\ Len(replies) = 3
        /\ \A i \in 1..3 : ~Failed(replies[i], ExpectedReads[i][3]))
        => /\ result = "ok"
           /\ data # <<>>
           /\ LET c == replies[1].registers[1] IN
              /\ data[1].sauna_type =
                    [known |-> c[2] \in {0, 1, 2}, value |-> c[2]]
              /\ data[1].fan_speed =
                    (IF c[6] \in {0, 1, 2, 3} THEN <<c[6]>> ELSE <<>>)

C8_Witness ==
    /\ op = "async_get_data" /\ result = "ok"
    /\ replies[1].registers[1][6] = 65535
    /\ data[1].fan_speed = <<>>

\* C9: async_set_target_temperature accepts exactly 0 and 40..100: it raises
\* ValueError for every other value, and on a Connected session it issues the
\* write of register 4 exactly for the accepted values.
C9_TemperatureDomain ==
    (pc = "idle" /\ op = "async_set_target_temperature")
        => LET t == arg[1]
               ok == t = 0 \/ (40 <= t /\ t <= 100)
           IN /\ (result = "ValueError") <=> ~ok
              /\ calls # <<>> => ok
              /\ isConnectedAtCall
                    => (ok <=> calls = << <<"write_register", 4, t>> >>)

C9_Witness ==
    /\ op = "async_set_target_temperature" /\ arg = <<0>>
    /\ calls = << <<"write_register", 4, 0>> >>
    /\ result = "ok"

\* C10: async_set_fan_speed accepts exactly 0, 1, 2, 3: every other value
\* raises ValueError and no write is issued.
C10_FanSpeedDomain ==
    (pc = "idle" /\ op = "async_set_fan_speed")
        => LET speed == arg[1]
               ok == speed \in {0, 1, 2, 3}
           IN /\ (result = "ValueError") <=> ~ok
              /\ ~ok => calls = <<>>
              /\ (ok /\ isConnectedAtCall)
                    => calls = << <<"write_register", 5, speed>> >>

C10_Witness ==
    /\ op = "async_set_fan_speed" /\ arg = <<-1>>
    /\ isConnectedAtCall
    /\ result = "ValueError" /\ calls = <<>>


\* C11: async_set_sauna_duration accepts exactly 0..720 and
\* async_set_fan_duration exactly 0..30; any other value raises ValueError
\* and no write is issued, an accepted one is written to register 2 or 3.
C11_DurationDomains ==
    /\ (pc = "idle" /\ op = "async_set_sauna_duration")
        => LET ok == 0 <= arg[1] /\ arg[1] <= 720 IN
           /\ (result = "ValueError") <=> ~ok
           /\ ~ok => calls = <<>>
           /\ (ok /\ isConnectedAtCall)
                => calls = << <<"write_register", 2, arg[1]>> >>
    /\ (pc = "idle" /\ op = "async_set_fan_duration")
        => LET ok == 0 <= arg[1] /\ arg[1] <= 30 IN
           /\ (result = "ValueError") <=> ~ok
           /\ ~ok => calls = <<>>
           /\ (ok /\ isConnectedAtCall)
                => calls = << <<"write_register", 3, arg[1]>> >>

C11_Witness ==
    /\ op = "async_set_sauna_duration" /\ arg = <<720>>
    /\ calls = << <<"write_register", 2, 720>> >>
    /\ result = "ok"

\* all three block reads of the call were answered by non-error responses of
\* full length
AllBlocksRead ==
    /\ op = "async_get_data"
    /\ Len(replies) = 3
    /\ \A i \in 1..3 : ~Failed(replies[i], ExpectedReads[i][3])

\* C12: async_set_sauna_type rejects every code other than 0, 1, 2 with
\* ValueError before any transport call, while async_get_data that reads an
\* unknown code in the sauna type register returns a snapshot reporting it.
C12_SaunaTypeAsymmetry ==
    /\ (pc = "idle" /\ op = "async_set_sauna_type")
        => LET ok == arg[1] \in {0, 1, 2} IN
           /\ (result = "ValueError") <=> ~ok
           /\ ~ok => calls = <<>>
           /\ (ok /\ isConnectedAtCall)
                => calls = << <<"write_register", 1, arg[1]>> >>
    /\ (AllBlocksRead /\ replies[1].registers[1][2] \notin {0, 1, 2})
        => /\ result = "ok"
           /\ data # <<>>
           /\ ~data[1].sauna_type.known
           /\ data[1].sauna_type.value = replies[1].registers[1][2]

C12_Witness ==
    /\ op = "async_get_data" /\ result = "ok"
    /\ replies[1].registers[1][2] = 3
    /\ data[1].sauna_type = [known |-> FALSE, value |-> 3]

\* the number high * 65536 + low for two 16-bit words, as base-65536 digits
OnTime(high, low) ==
    IF high # 0 THEN <<low, high>> ELSE IF low # 0 THEN <<low>> ELSE <<>>

\* a 16-bit word read as a two's complement number
Signed(w) == IF w < 32768 THEN w ELSE w - 65536

\* C13: for complete responses every field of the snapshot is decoded from
\* its fixed offset of the Control, Status or Alarms block; the typical blocks
\* [1,0,60,10,80,2,1], [75,0,0,1,0], [0,0,0,0,0,0] give the documented snapshot.
C13_FieldOffsets ==
    AllBlocksRead
        => LET c == replies[1].registers[1]
               s == replies[2].registers[1]
               a == replies[3].registers[1]
               d == data[1]
           IN /\ data # <<>>
              /\ d.session_active = (c[1] # 0)
              /\ d.sauna_type.value = c[2]
              /\ d.sauna_duration = c[3]
              /\ d.fan_duration = c[4]
              /\ d.target_temperature = c[5]
              /\ c[6] \in {0, 1, 2, 3} => d.fan_speed = <<c[6]>>
              /\ d.light_on = (c[7] # 0)
              /\ d.current_temperature = Signed(s[1])
              /\ d.on_time = OnTime(s[2], s[3])
              /\ d.heater_elements_active = s[4]
              /\ d.door_open = (s[5] # 0)
              /\ d.alarm_door_open = (a[1] # 0)
              /\ d.alarm_door_sensor = (a[2] # 0)
              /\ d.alarm_thermal_cutoff = (a[3] # 0)
              /\ d.alarm_internal_temp = (a[4] # 0)
              /\ d.alarm_temp_sensor_short = (a[5] # 0)
              /\ d.alarm_temp_sensor_open = (a[6] # 0)
              /\ (c = <<1, 0, 60, 10, 80, 2, 1>> /\ s = <<75, 0, 0, 1, 0>>
                    /\ a = <<0, 0, 0, 0, 0, 0>>)
                    => d = [session_active |-> TRUE,
                            sauna_type |-> [known |-> TRUE, value |-> 0],
                            sauna_duration |-> 60,
                            fan_duration |-> 10,
                            target_temperature |-> 80,
                            fan_speed |-> <<2>>,
                            light_on |-> TRUE,
                            current_temperature |-> 75,
                            on_time |-> <<>>,
                            heater_elements_active |-> 1,
                            door_open |-> FALSE,
                            alarm_door_open |-> FALSE,
                            alarm_door_sensor |-> FALSE,
                            alarm_thermal_cutoff |-> FALSE,
                            alarm_internal_temp |-> FALSE,
                            alarm_temp_sensor_short |-> FALSE,
                            alarm_temp_sensor_open |-> FALSE]

C13_Witness ==
    /\ AllBlocksRead
    /\ replies[1].registers[1] = <<1, 0, 60, 10, 80, 2, 1>>
    /\ replies[2].registers[1] = <<75, 1, 0, 1, 0>>
    /\ replies[3].registers[1] = <<0, 0, 0, 0, 0, 0>>
    /\ data[1].on_time = <<0, 1>>


\* the transport's answer is a response that reports an error
ErrorResponse(reply) == reply.kind = "response" /\ reply.isError

\* the transport call raised exc
Raised(reply, exc) == reply.kind = "raise" /\ reply.exc = exc

\* C14: an error response to a block read makes async_get_data raise
\* SaunumCommunicationError; an error response to a register write, or a
\* ModbusException raised by the write, makes the setter raise
\* SaunumCommunicationError and no other error.
C14_ErrorResponse ==
    /\ (op = "async_get_data" /\ \E i \in 1..Len(replies) : ErrorResponse(replies[i]))
        => (pc = "idle" /\ result = "SaunumCommunicationError")
    /\ (pc = "idle" /\ op \in WriteOps /\ replies # <<>>
            /\ (ErrorResponse(replies[1]) \/ Raised(replies[1], "ModbusException")))
        => result = "SaunumCommunicationError"

C14_Witness ==
    /\ pc = "idle" /\ op = "async_set_fan_speed" /\ arg = <<2>>
    /\ replies = <<[kind |-> "response", isError |-> TRUE]>>
    /\ result = "SaunumCommunicationError"

\* C15: a TimeoutError raised by the transport during connect(), during any
\* of the three block reads or during a register write makes the operation
\* raise SaunumTimeoutError, never SaunumConnectionError or
\* SaunumCommunicationError.
C15_Timeout ==
    /\ (op \in {"connect", "__aenter__"} /\ replies = <<Raises("TimeoutError")>>)
        => result = "SaunumTimeoutError"
    /\ (op = "async_get_data"
            /\ \E i \in 1..Len(replies) : Raised(replies[i], "TimeoutError"))
        => (pc = "idle" /\ result = "SaunumTimeoutError")
    /\ (pc = "idle" /\ op \in WriteOps /\ replies = <<Raises("TimeoutError")>>)
        => result = "SaunumTimeoutError"

C15_Witness ==
    /\ op = "connect"
    /\ replies = <<Raises("TimeoutError")>>
    /\ result = "SaunumTimeoutError"

\* C17: one call makes no retry: connect() calls the transport's connect
\* once, a setter calls write_register at most once, async_get_data reads
\* each block at most once, three reads at most, whatever the transport
\* answers.
C17_NoRetry ==
    /\ op \in {"connect", "__aenter__"} => calls = << <<"connect">> >>
    /\ op \in WriteOps
        => /\ Len(calls) <= 1
           /\ Len(replies) = Len(calls)
           /\ \A i \in 1..Len(calls) : calls[i][1] = "write_register"
    /\ op = "async_get_data"
        => /\ Len(calls) <= 3
           /\ Len(replies) = Len(calls)
           /\ \A i, j \in 1..Len(calls) : calls[i] = calls[j] => i = j

C17_Witness ==
    /\ op = "connect"
    /\ replies = <<Raises("OSError")>>
    /\ calls = << <<"connect">> >>
    /\ result = "SaunumConnectionError"

\* the register each write operation is documented to write
Register(name) ==
    CASE name \in {"async_start_session", "async_stop_session"} -> 0
      [] name = "async_set_sauna_type" -> 1
      [] name = "async_set_sauna_duration" -> 2
      [] name = "async_set_fan_duration" -> 3
      [] name = "async_set_target_temperature" -> 4
      [] name = "async_set_fan_speed" -> 5
      [] name = "async_set_light_control" -> 6

\* the word each write operation is documented to write for its argument
Word(name, a) ==
    CASE name = "async_start_session" -> 1
      [] name = "async_stop_session" -> 0
      [] OTHER -> a[1]

\* C18: a write operation that returns has issued exactly one write_register,
\* to the register of its parameter and with the argument itself as the word:
\* 1 (start) or 0 (stop) to register 0, the sauna type to 1, the sauna
\* duration to 2, the fan duration to 3, the target temperature to 4, the fan
\* speed to 5, 1 (on) or 0 (off) to 6.
C18_WriteEncoding ==
    (pc = "idle" /\ op \in WriteOps /\ result = "ok")
        => calls = << <<"write_register", Register(op), Word(op, arg)>> >>

C18_Witness ==
    /\ pc = "idle" /\ op = "async_set_light_control" /\ arg = <<1>>
    /\ result = "ok"
    /\ calls = << <<"write_register", 6, 1>> >>


\* the errors of a read or write that reached the transport
Failures ==
    {"SaunumInvalidDataError", "SaunumTimeoutError", "SaunumCommunicationError"}

\* C16: a step in which async_get_data or a setter raises
\* SaunumInvalidDataError, SaunumTimeoutError or SaunumCommunicationError
\* leaves the session as connected as it was and calls no transport close();
\* the same operation called again on the still Connected session is not
\* refused: a setter issues its write_register again, async_get_data goes on to
\* its first read. A link dropped by the transport itself is not a step of
\* the client.
C16_FailureKeepsSession ==
    [][~LinkLost =>
        /\ (pc' = "idle" /\ op' \in WriteOps \cup {"async_get_data"}
                /\ result' \in Failures)
            => /\ connected' = connected
               /\ \A i \in 1..Len(calls') : calls'[i][1] # "close"
        /\ (pc = "idle" /\ op \in WriteOps \cup {"async_get_data"}
                /\ result \in Failures /\ connected
                /\ op' = op /\ arg' = arg)
            => IF op \in WriteOps
               THEN /\ Len(calls') = 1
                    /\ calls'[1][1] = "write_register"
               ELSE pc' = "control" /\ result' = "pending"]_vars

C16_Witness ==
    /\ pc = "idle" /\ op = "async_get_data"
    /\ Len(calls) = 3
    /\ result = "SaunumInvalidDataError"
    /\ isConnectedAtCall /\ isConnectedAtReturn /\ connected


\* C19: whatever happened before, async_close returns without raising, the
\* session is Disconnected when it returns and the connection handle has been
\* released: the transport's close() has been called since the link was last
\* established.
C19_CloseReleases ==
    (pc = "idle" /\ op \in {"async_close", "__aexit__"})
        => /\ result = "ok"
           /\ ~isConnectedAtReturn
           /\ ~handleOpen

\* async_close returned on a session whose link the transport had lost: it
\* called nothing and the handle is still open
C19_Witness ==
    /\ pc = "idle" /\ op = "async_close"
    /\ result = "ok"
    /\ ~isConnectedAtCall /\ ~isConnectedAtReturn
    /\ calls = <<>>
    /\ handleOpen

\* C20: `async with client`: when __aenter__ returns, the transport's connect()
\* has been called exactly once and the session is Connected; when the block
\* is left, __aexit__ calls the transport's close() exactly once.
C20_ContextManager ==
    /\ (op = "__aenter__" /\ result = "ok")
        => (calls = << <<"connect">> >> /\ isConnectedAtReturn /\ ctx = "in")
    /\ (pc = "idle" /\ op = "__aexit__")
        => (calls = << <<"close">> >> /\ ctx = "out")

\* the block was left after the transport had lost the link: __aexit__
\* called no close()
C20_Witness ==
    /\ pc = "idle" /\ op = "__aexit__"
    /\ ctx = "out"
    /\ ~isConnectedAtCall
    /\ calls = <<>>
    /\ handleOpen


\* the operations that connect: connect() itself, create() and __aenter__
ConnectOps == {"connect", "create", "__aenter__"}

\* C21: create() returns a client only once it is Connected; when the
\* connection cannot be established or times out it raises
\* SaunumConnectionError or SaunumTimeoutError and returns no client.
C21_CreateConnected ==
    (op = "create")
        => /\ \/ result = "ok" /\ isConnectedAtReturn /\ HasClient
              \/ /\ result \in {"SaunumConnectionError", "SaunumTimeoutError"}
                 /\ ~isConnectedAtReturn
                 /\ ~HasClient
           /\ calls = << <<"connect">> >>
           /\ (replies[1].kind = "return" /\ ~replies[1].connected)
                => result = "SaunumConnectionError"
           /\ Raised(replies[1], "TimeoutError") => result = "SaunumTimeoutError"

C21_Witness ==
    /\ op = "create"
    /\ replies = << [kind |-> "return", connected |-> FALSE] >>
    /\ result = "SaunumConnectionError"
    /\ ~HasClient

\* C22: whenever connect(), async_get_data or a write operation raises
\* SaunumConnectionError, the session is Disconnected when the error is
\* raised, also when connect() is called on a Connected session and the
\* transport's connect fails.
C22_ConnectionErrorDisconnected ==
    (pc = "idle" /\ op \in ConnectOps \cup WriteOps \cup {"async_get_data"}
        /\ result = "SaunumConnectionError")
        => ~isConnectedAtReturn

\* connect() on a Connected session: the transport's connect raised OSError
\* and kept its link; SaunumConnectionError is raised on a Connected session
C22_Witness ==
    /\ pc = "idle" /\ op = "connect"
    /\ isConnectedAtCall
    /\ replies = <<Raises("OSError")>>
    /\ result = "SaunumConnectionError"
    /\ isConnectedAtReturn


\* C25: the target_temperature of every snapshot is 0 or within 40..100,
\* whatever word the device reports at offset 4 of the control block.
C25_SnapshotTemperatureDomain ==
    (op = "async_get_data" /\ result = "ok")
        => \/ data[1].target_temperature = 0
           \/ data[1].target_temperature \in 40..100

\* a snapshot that carries the 101 the device reported
C25_Witness ==
    /\ op = "async_get_data" /\ result = "ok"
    /\ replies[1].registers[1][5] = 101
    /\ data[1].target_temperature = 101

\* a non-error response whose word list is missing or has another length than
\* the block's count
WrongCount(reply, count) ==
    /\ reply.kind = "response"
    /\ ~reply.isError
    /\ (reply.registers = <<>> \/ Len(reply.registers[1]) # count)

\* C26: a non-error response with another word count than the block's (7, 5,
\* 6), longer or shorter, yields no snapshot.
C26_ExactCount ==
    (op = "async_get_data"
        /\ \E i \in 1..Len(replies) : WrongCount(replies[i], ExpectedReads[i][3]))
        => (result # "ok" /\ data = <<>>)

\* a snapshot built from a control block of 8 words
C26_Witness ==
    /\ op = "async_get_data" /\ result = "ok"
    /\ Len(replies[1].registers[1]) = 8
    /\ data # <<>>

\* an error response without the words of the block
ErrorWithoutWords(reply, count) ==
    /\ ErrorResponse(reply)
    /\ (reply.registers = <<>> \/ Len(reply.registers[1]) < count)

\* C30: a response to a block read that reports an error makes async_get_data
\* raise SaunumCommunicationError also when it carries no or too few words;
\* SaunumInvalidDataError is raised only for a non-error response whose word
\* list is missing or shorter than the block's count.
C30_ErrorBeforeCompleteness ==
    (op = "async_get_data")
        => /\ (\E i \in 1..Len(replies) :
                    ErrorWithoutWords(replies[i], ExpectedReads[i][3]))
                => (pc = "idle" /\ result = "SaunumCommunicationError")
           /\ (result = "SaunumInvalidDataError")
                => /\ replies # <<>>
                   /\ Short(replies[Len(replies)], ExpectedReads[Len(replies)][3])

C30_Witness ==
    /\ op = "async_get_data" /\ pc = "idle"
    /\ Len(replies) = 2
    /\ replies[2] = [kind |-> "response", isError |-> TRUE, registers |-> <<>>]
    /\ result = "SaunumCommunicationError"


\* C27: the temperature word w is decoded as 16-bit two's complement: w below
\* 32768 is itself, any other w is w - 65536 (65535 is -1, 32768 is -32768,
\* 32767 is 32767), so current_temperature lies in -32768..32767 and is
\* negative exactly when w >= 32768.
C27_SignedDecode ==
    (pc = "idle" /\ op = "async_get_data" /\ result = "ok")
        => LET w == replies[2].registers[1][1]
               t == data[1].current_temperature
           IN /\ w < 32768 => t = w
              /\ w >= 32768 => t = w - 65536
              /\ w = 65535 => t = -1
              /\ w = 32768 => t = -32768
              /\ w = 32767 => t = 32767
              /\ t \in -32768..32767
              /\ (t < 0) <=> (w >= 32768)

C27_Witness ==
    /\ pc = "idle" /\ result = "ok"
    /\ status_regs[1] = 32768
    /\ data[1].current_temperature = -32768

\* value mod 65536 and value div 65536 of a number below 2^32 kept as digits
Low16(digits) == IF Len(digits) >= 1 THEN digits[1] ELSE 0
High16(digits) == IF Len(digits) >= 2 THEN digits[2] ELSE 0

\* C28: on_time is high * 65536 + low, high word first; it lies in
\* 0..2^32-1 and splits back into the pair: on_time div 65536 = high and
\* on_time mod 65536 = low (high 1, low 0 gives 65536).
C28_OnTimeRoundTrip ==
    (pc = "idle" /\ op = "async_get_data" /\ result = "ok")
        => LET high == replies[2].registers[1][2]
               low == replies[2].registers[1][3]
               v == data[1].on_time
           IN /\ v = OnTime(high, low)
              /\ Len(v) <= 2
              /\ \A k \in 1..Len(v) : v[k] \in 0..65535
              /\ Len(v) > 0 => v[Len(v)] # 0
              /\ High16(v) = high
              /\ Low16(v) = low
              /\ (high = 1 /\ low = 0) => v = Big(65536)

C28_Witness ==
    /\ pc = "idle" /\ result = "ok"
    /\ status_regs[2] = 65535 /\ status_regs[3] = 32768
    /\ data[1].on_time = <<32768, 65535>>


\* what a finished operation shows: it returned, or raised an error of the
\* taxonomy
Finished == {"ok", "ValueError"} \cup Errors

\* C29: no operation blocks for ever: when every awaited transport call is
\* answered, an operation that was invoked returns or raises ValueError or
\* one of the Saunum errors; only async_get_data is ever left waiting, and it
\* finishes.
C29_Terminates ==
    /\ [](pc = "idle" => result \in Finished)
    /\ [](pc # "idle" => (op = "async_get_data" /\ result = "pending"))
    /\ (pc # "idle") ~> (pc = "idle" /\ result \in Finished)

C29_Witness ==
    /\ pc = "idle" /\ op = "async_get_data"
    /\ Len(replies) = 3
    /\ replies[3] = Raises("TimeoutError")
    /\ result = "SaunumTimeoutError"


\* the word lists of the three responses answered to a call that returned
WordsRead == [i \in 1..3 |-> replies[i].registers[1]]

\* C23 as stated: the three blocks of a returned snapshot are read in one and
\* the same state of the device's registers, also when the registers change
\* between the block reads.
C23_SinglePointInTime ==
    (op = "async_get_data" /\ pc = "idle" /\ result = "ok")
        => (readAt[1] = readAt[2] /\ readAt[2] = readAt[3])

\* C23, amended: each block of a returned snapshot holds the words of its own
\* single read, so a block is of one state of the registers; the blocks are
\* read in the order Control, Status, Alarms, none in an older state than the
\* block before it, and the snapshot is of a single state when the registers
\* did not change between the first read and the last.
C23_BlockwiseSnapshot ==
    (op = "async_get_data" /\ pc = "idle" /\ result = "ok")
        => /\ Len(readAt) = 3
           /\ control_regs = WordsRead[1]
           /\ status_regs = WordsRead[2]
           /\ alarm_regs = WordsRead[3]
           /\ readAt[1] <= readAt[2] /\ readAt[2] <= readAt[3]
           /\ readAt[3] <= epoch
           /\ (epoch = readAt[1])
                => (readAt[1] = readAt[2] /\ readAt[2] = readAt[3])

\* a returned snapshot whose alarm block was read after the registers changed
C23_Witness ==
    /\ op = "async_get_data" /\ pc = "idle" /\ result = "ok"
    /\ readAt = <<0, 0, 1>>
    /\ data # <<>>

\* the alarm flags of a snapshot, in the order of the alarm block
AlarmFlags(d) ==
    <<d.alarm_door_open, d.alarm_door_sensor, d.alarm_thermal_cutoff,
      d.alarm_internal_temp, d.alarm_temp_sensor_short, d.alarm_temp_sensor_open>>

\* C24: nothing of an earlier call is kept: an async_get_data on a Connected
\* session starts with no words and no snapshot and issues its own reads, what
\* it holds while it runs are the words answered to its own reads, and the
\* snapshot it returns is built from the words of its own three reads.
C24_NoCache ==
    (op = "async_get_data" /\ isConnectedAtCall)
        => /\ pc = "control"
                => /\ calls = <<>> /\ data = <<>>
                   /\ control_regs = <<>> /\ status_regs = <<>> /\ alarm_regs = <<>>
           /\ pc = "status"
                => /\ control_regs = replies[1].registers[1]
                   /\ status_regs = <<>> /\ alarm_regs = <<>> /\ data = <<>>
           /\ pc = "alarm"
                => /\ control_regs = replies[1].registers[1]
                   /\ status_regs = replies[2].registers[1]
                   /\ alarm_regs = <<>> /\ data = <<>>
           /\ pc = "idle" => (Len(calls) >= 1 /\ Len(replies) = Len(calls))
           /\ result # "ok" => data = <<>>
           /\ result = "ok"
                => /\ calls = ExpectedReads
                   /\ data = <<SaunumData(control_regs, status_regs, alarm_regs)>>
                   /\ data[1].sauna_duration = WordsRead[1][3]
                   /\ data[1].target_temperature = WordsRead[1][5]
                   /\ data[1].heater_elements_active = WordsRead[2][4]
                   /\ \A k \in 1..6 : AlarmFlags(data[1])[k] = (WordsRead[3][k] # 0)

C24_Witness ==
    /\ op = "async_get_data" /\ isConnectedAtCall /\ result = "ok"
    /\ WordsRead[1][3] = 65535
    /\ WordsRead[3][6] = 1
    /\ data[1].sauna_duration = 65535
    /\ data[1].alarm_temp_sensor_open

====
